---- MODULE Spec2Model ----
(***************************************************************************)
(* A model of the DLA (diffusion limited aggregation) program of           *)
(* src/src/main.rs: the Grid (cells, t, rng, stickiness, running), its     *)
(* methods, the per-frame random walks of update_one_frame, the seeders    *)
(* (Grid::new, odd_grid) and the event loop of main.                       *)
(*                                                                         *)
(* The grid is scaled down from 640 x 480 to GRID_WIDTH x GRID_HEIGHT and  *)
(* the 60 walks of a frame to WalksPerFrame; every formula is written in   *)
(* terms of these names.  The random number generator is modelled by its   *)
(* position in the stream (the number of values drawn so far); the value   *)
(* of each draw is a nondeterministic choice from the range of the draw.   *)
(* The accumulated time is an IEEE-754 binary64 number, modelled exactly   *)
(* for the values that occur (see F64Round).                               *)
(***************************************************************************)
EXTENDS Integers, Sequences, FiniteSets, TLC

VARIABLES
    cells,       \* Grid.cells: Vec<bool>, row-major, index y * GRID_WIDTH + x
    t,           \* Grid.t: f64 accumulated time, <<hi, lo>> (see F64)
    rng,         \* Grid.rng: number of values drawn from the stream so far
    stickiness,  \* Grid.stickiness, in thousandths (1000 = 1.0)
    running,     \* Grid.running
    pc,          \* where the event loop is: "idle" | "frame" | "walk"
    i,           \* walks finished in the current frame (the for loop counter)
    x, y,        \* the walking particle (locals of update_one_frame)
    op           \* the last operation begun: the constructor or the event

vars == <<cells, t, rng, stickiness, running, pc, i, x, y, op>>

----------------------------------------------------------------------------
(* Bounds of the model *)

\* GRID_WIDTH = WINDOW_WIDTH / BLOCK_SIZE is 640 in the program; scaled down.
GRID_WIDTH == 5

\* GRID_HEIGHT = WINDOW_HEIGHT / BLOCK_SIZE is 480 in the program; scaled down.
GRID_HEIGHT == 4

\* `for _ in 0 .. 60`: the walks of one frame; scaled down.
WalksPerFrame == 2

\* The number of values a run may draw from the random stream.
MaxDraws == 8

----------------------------------------------------------------------------
(* i32 *)

I32_MAX == 2147483647

I32_MIN == -I32_MAX - 1

\* a + d for d in {-1, 0, 1} leaves the range of i32
I32Overflows(a, d) == (d = 1 /\ a = I32_MAX) \/ (d = -1 /\ a = I32_MIN)

\* a + d as a build without overflow checks computes it (two's complement)
I32WrappingAdd(a, d) ==
    IF I32Overflows(a, d)
    THEN (IF d = 1 THEN I32_MIN ELSE I32_MAX)
    ELSE a + d

----------------------------------------------------------------------------
(* f64: the non-negative binary64 numbers below 4 that are multiples of    *)
(* 2^-57, which covers every value t takes here.  The number n * 2^-57 is  *)
(* the pair <<hi, lo>> with n = hi * 2^28 + lo and 0 <= lo < 2^28.         *)

LIMB == 2^28

F64Zero == <<0, 0>>

\* The number of bits by which hi * 2^28 + lo exceeds the 53 bits of a
\* binary64 significand.
F64ExcessBits(hi) ==
    IF hi < 2^25 THEN 0
    ELSE IF hi < 2^26 THEN 1
    ELSE IF hi < 2^27 THEN 2
    ELSE IF hi < 2^28 THEN 3
    ELSE IF hi < 2^29 THEN 4
    ELSE IF hi < 2^30 THEN 5
    ELSE 6

\* Round hi * 2^28 + lo to 53 significant bits, to nearest, ties to even.
F64Round(hi, lo) ==
    LET q    == 2^F64ExcessBits(hi)
        r    == lo % q
        down == lo - r
        up   == IF 2 * r > q THEN TRUE
                ELSE IF 2 * r < q THEN FALSE
                ELSE (down \div q) % 2 = 1
        l    == IF up THEN down + q ELSE down
    IN  IF l = LIMB THEN <<hi + 1, 0>> ELSE <<hi, l>>

\* a + b, rounded
F64Add(a, b) ==
    LET l == a[2] + b[2]
    IN  IF l >= LIMB THEN F64Round(a[1] + b[1] + 1, l - LIMB)
                     ELSE F64Round(a[1] + b[1], l)

\* a > b
F64Gt(a, b) == a[1] > b[1] \/ (a[1] = b[1] /\ a[2] > b[2])

\* a - b for a >= b, rounded
F64Sub(a, b) ==
    IF a[2] >= b[2] THEN F64Round(a[1] - b[1], a[2] - b[2])
                    ELSE F64Round(a[1] - b[1] - 1, a[2] + LIMB - b[2])

\* pub const FRAME_DURATION: f64 = 0.1, the binary64 nearest to 0.1:
\* 14411518807585588 * 2^-57
FRAME_DURATION == <<53687091, 53687092>>

\* The binary64 numbers nearest to 0.05, 0.1, 0.2 and 0.3
F64_0_05 == <<26843545, 161061274>>

F64_0_1 == <<53687091, 53687092>>

F64_0_2 == <<107374182, 107374184>>

F64_0_3 == <<161061273, 161061272>>

\* The values of args.dt that the Update events bring
DtSet == {F64_0_05, F64_0_1, F64_0_2, F64_0_3}

----------------------------------------------------------------------------
(* The random source *)

\* gen_range with the upper limit included
gen_range_inclusive(low, high) == low .. high

\* rng.gen_range(low, high): an integer in [low, high)
gen_range(low, high) == low .. (high - 1)

\* rng.gen::<f64>(): a number in [0, 1), in thousandths; the representatives
\* cover both outcomes of the comparison with each stickiness in use
gen_f64 == {0, 5, 50, 500, 999}

\* const DIRS
DIRS == << <<-1, -1>>, <<0, -1>>, <<1, -1>>,
           <<-1,  0>>,            <<1,  0>>,
           <<-1,  1>>, <<0,  1>>, <<1,  1>> >>

\* rng.choose(&DIRS)
choose_DIRS == {DIRS[k] : k \in 1 .. Len(DIRS)}

\* n more values can be drawn within the bound of the model
CanDraw(n) == rng + n <= MaxDraws

----------------------------------------------------------------------------
(* Grid *)

\* vec![false; GRID_WIDTH * GRID_HEIGHT]
EmptyCells == [k \in 0 .. (GRID_WIDTH * GRID_HEIGHT - 1) |-> FALSE]

\* y as usize * GRID_WIDTH + x as usize, for x, y >= 0
Index(cx, cy) == cy * GRID_WIDTH + cx

\* in_bounds with <= for the lower limits
in_bounds_from_zero(cx, cy) ==
    0 <= cx /\ cx < GRID_WIDTH /\ 0 <= cy /\ cy < GRID_HEIGHT

\* in_bounds with <= for the upper limit of x
in_bounds_to_width(cx, cy) ==
    0 < cx /\ cx <= GRID_WIDTH /\ 0 < cy /\ cy < GRID_HEIGHT

in_bounds(cx, cy) ==
    0 < cx /\ cx < GRID_WIDTH /\ 0 < cy /\ cy < GRID_HEIGHT

test(cx, cy) == in_bounds(cx, cy) /\ cells[Index(cx, cy)]

\* The indexes of self.cells that Grid::test(cx, cy) reads: && evaluates
\* its right operand, the one that indexes the array, only when in_bounds
\* returned true
test_reads(cx, cy) == IF in_bounds(cx, cy) THEN {Index(cx, cy)} ELSE {}

\* is_adjacent that counts the cell (x, y) itself
is_adjacent_with_self(cx, cy) ==
    \E dx \in {-1, 0, 1}, dy \in {-1, 0, 1} :
        test(I32WrappingAdd(cx, dx), I32WrappingAdd(cy, dy))

\* Grid::is_adjacent, the additions wrapping
is_adjacent(cx, cy) ==
       test(I32WrappingAdd(cx, -1), I32WrappingAdd(cy, -1))
    \/ test(cx                    , I32WrappingAdd(cy, -1))
    \/ test(I32WrappingAdd(cx,  1), I32WrappingAdd(cy, -1))
    \/ test(I32WrappingAdd(cx, -1), cy                    )
    \/ test(I32WrappingAdd(cx,  1), cy                    )
    \/ test(I32WrappingAdd(cx, -1), I32WrappingAdd(cy,  1))
    \/ test(cx                    , I32WrappingAdd(cy,  1))
    \/ test(I32WrappingAdd(cx,  1), I32WrappingAdd(cy,  1))

\* The arguments of the eight calls of test in is_adjacent, in the order of
\* evaluation, as offsets from (x, y)
AdjacentArgs == << <<-1, -1>>, <<0, -1>>, <<1, -1>>,
                   <<-1,  0>>,            <<1,  0>>,
                   <<-1,  1>>, <<0,  1>>, <<1,  1>> >>

\* Grid::is_adjacent in a build with overflow checks: computing the arguments
\* of a call of test that is reached (every earlier call returned false)
\* overflows i32, and the program panics
is_adjacent_panics(cx, cy) ==
    \E k \in 1 .. Len(AdjacentArgs) :
        /\ \/ I32Overflows(cx, AdjacentArgs[k][1])
           \/ I32Overflows(cy, AdjacentArgs[k][2])
        /\ \A j \in 1 .. (k - 1) :
              /\ ~I32Overflows(cx, AdjacentArgs[j][1])
              /\ ~I32Overflows(cy, AdjacentArgs[j][2])
              /\ ~test(cx + AdjacentArgs[j][1], cy + AdjacentArgs[j][2])

\* set that flips the cell
set_toggles(c, cx, cy) == [c EXCEPT ![Index(cx, cy)] = ~c[Index(cx, cy)]]

\* Grid::set: the cells after self.cells[...] = true
set(c, cx, cy) == [c EXCEPT ![Index(cx, cy)] = TRUE]

\* Grid::new_empty: the Grid it returns (the field rng apart: the rng passed
\* in is moved into the grid as it is)
new_empty(s) ==
    [cells |-> EmptyCells, t |-> F64Zero, stickiness |-> s, running |-> TRUE]

\* new that leaves out the call of set
new_unseeded(s) == new_empty(s)

\* Grid::new
new(s) ==
    LET grid == new_empty(s)
    IN  [grid EXCEPT !.cells = set(grid.cells, GRID_WIDTH \div 2, GRID_HEIGHT \div 2)]

----------------------------------------------------------------------------
(* odd_grid: the spiral seed *)

\* const N: i32 = 100
N == 100

\* The scale of the tables COS and SIN
TrigScale == 10^4

\* (3.0 * pi * t).cos() for t = i / N, i = 0 .. N - 1, times TrigScale, rounded
COS ==
    << 10000, 9956, 9823, 9603, 9298, 8910, 8443, 7902, 7290, 6613,
       5878, 5090, 4258, 3387, 2487, 1564, 628, -314, -1253, -2181,
       -3090, -3971, -4818, -5621, -6374, -7071, -7705, -8271, -8763, -9178,
       -9511, -9759, -9921, -9995, -9980, -9877, -9686, -9409, -9048, -8607,
       -8090, -7501, -6845, -6129, -5358, -4540, -3681, -2790, -1874, -941,
       0, 941, 1874, 2790, 3681, 4540, 5358, 6129, 6845, 7501,
       8090, 8607, 9048, 9409, 9686, 9877, 9980, 9995, 9921, 9759,
       9511, 9178, 8763, 8271, 7705, 7071, 6374, 5621, 4818, 3971,
       3090, 2181, 1253, 314, -628, -1564, -2487, -3387, -4258, -5090,
       -5878, -6613, -7290, -7902, -8443, -8910, -9298, -9603, -9823, -9956 >>

\* (3.0 * pi * t).sin() for t = i / N, i = 0 .. N - 1, times TrigScale, rounded
SIN ==
    << 0, 941, 1874, 2790, 3681, 4540, 5358, 6129, 6845, 7501,
       8090, 8607, 9048, 9409, 9686, 9877, 9980, 9995, 9921, 9759,
       9511, 9178, 8763, 8271, 7705, 7071, 6374, 5621, 4818, 3971,
       3090, 2181, 1253, 314, -628, -1564, -2487, -3387, -4258, -5090,
       -5878, -6613, -7290, -7902, -8443, -8910, -9298, -9603, -9823, -9956,
       -10000, -9956, -9823, -9603, -9298, -8910, -8443, -7902, -7290, -6613,
       -5878, -5090, -4258, -3387, -2487, -1564, -628, 314, 1253, 2181,
       3090, 3971, 4818, 5621, 6374, 7071, 7705, 8271, 8763, 9178,
       9511, 9759, 9921, 9995, 9980, 9877, 9686, 9409, 9048, 8607,
       8090, 7501, 6845, 6129, 5358, 4540, 3681, 2790, 1874, 941 >>

\* (c + t * r * trig) as i32, where c = extent / 2.0, t = k / N and
\* r = min(cx, cy) * 0.9: the quotient, truncated, of
\*   extent * 1000 * TrigScale + k * 9 * min(GRID_WIDTH, GRID_HEIGHT) * trig
\* by 2000 * TrigScale (all the values are positive)
SpiralCoord(extent, k, trig) ==
    LET m == IF GRID_WIDTH < GRID_HEIGHT THEN GRID_WIDTH ELSE GRID_HEIGHT
    IN  (extent * 1000 * TrigScale + k * 9 * m * trig) \div (2000 * TrigScale)

\* The cells after the loop of odd_grid
SpiralCells ==
    [k \in 0 .. (GRID_WIDTH * GRID_HEIGHT - 1) |->
        \E j \in 0 .. (N - 1) :
            k = Index(SpiralCoord(GRID_WIDTH, j, COS[j + 1]),
                      SpiralCoord(GRID_HEIGHT, j, SIN[j + 1]))]

\* odd_grid: the Grid it returns
odd_grid ==
    LET grid == new_empty(100)
    IN  [grid EXCEPT !.cells = SpiralCells]

----------------------------------------------------------------------------
(* Grid::update and Grid::update_one_frame, one step of a loop at a time *)

\* The walk is over: the locals x and y are gone, the for loop counts on
WalkEnds ==
    /\ i' = i + 1
    /\ x' = 0
    /\ y' = 0
    /\ pc' = "frame"

\* self.t += args.dt, and the first test of the while loop
update(dt) ==
    /\ pc = "idle"
    /\ t' = F64Add(t, dt)
    /\ pc' = IF F64Gt(t', FRAME_DURATION) THEN "frame" ELSE "idle"
    /\ op' = "update"
    /\ UNCHANGED <<cells, rng, stickiness, running, i, x, y>>

\* StartWalk for a loop over 0 ..= 60
StartWalk_inclusive ==
    /\ pc = "frame"
    /\ i <= WalksPerFrame
    /\ CanDraw(2)
    /\ \E sx \in gen_range(0, GRID_WIDTH), sy \in gen_range(0, GRID_HEIGHT) :
          /\ x' = sx
          /\ y' = sy
    /\ rng' = rng + 2
    /\ pc' = "walk"
    /\ UNCHANGED <<cells, t, stickiness, running, i, op>>

\* The head of the for loop: the starting point of a walk
StartWalk ==
    /\ pc = "frame"
    /\ i < WalksPerFrame
    /\ CanDraw(2)
    /\ \E sx \in gen_range(0, GRID_WIDTH), sy \in gen_range(0, GRID_HEIGHT) :
          /\ x' = sx
          /\ y' = sy
    /\ rng' = rng + 2
    /\ pc' = "walk"
    /\ UNCHANGED <<cells, t, stickiness, running, i, op>>

\* The comparison the wrong way round
Sticks_inverted(u) == u > stickiness

\* The comparison with <=
Sticks_or_equal(u) == u <= stickiness

\* u < self.stickiness
Sticks(u) == u < stickiness

\* WalkStick without the test of is_adjacent
WalkStick_anywhere ==
    /\ pc = "walk"
    /\ CanDraw(1)
    /\ \E u \in gen_f64 : Sticks(u)
    /\ cells' = set(cells, x, y)
    /\ rng' = rng + 1
    /\ WalkEnds
    /\ UNCHANGED <<t, stickiness, running, op>>

\* if self.is_adjacent(x, y) && self.rng.gen::<f64>() < self.stickiness
\* { self.set(x, y); break; }
WalkStick ==
    /\ pc = "walk"
    /\ is_adjacent(x, y)
    /\ CanDraw(1)
    /\ \E u \in gen_f64 : Sticks(u)
    /\ cells' = set(cells, x, y)
    /\ rng' = rng + 1
    /\ WalkEnds
    /\ UNCHANGED <<t, stickiness, running, op>>

\* WalkMove that sets the cell the particle leaves the grid from
WalkMove_sets_on_escape ==
    /\ pc = "walk"
    /\ LET drawn == IF is_adjacent(x, y) THEN 1 ELSE 0
       IN  /\ is_adjacent(x, y) => \E u \in gen_f64 : ~Sticks(u)
           /\ CanDraw(drawn + 1)
           /\ rng' = rng + drawn + 1
    /\ \E d \in choose_DIRS :
          IF in_bounds(x + d[1], y + d[2])
          THEN /\ x' = x + d[1]
               /\ y' = y + d[2]
               /\ UNCHANGED <<pc, i, cells>>
          ELSE /\ WalkEnds
               /\ cells' = set(cells, x, y)
    /\ UNCHANGED <<t, stickiness, running, op>>

\* The condition of the if is false (without a draw when (x, y) is not
\* adjacent); the particle moves by one of DIRS and the walk goes on if the
\* new point is in bounds, else it ends
WalkMove ==
    /\ pc = "walk"
    /\ LET drawn == IF is_adjacent(x, y) THEN 1 ELSE 0
       IN  /\ is_adjacent(x, y) => \E u \in gen_f64 : ~Sticks(u)
           /\ CanDraw(drawn + 1)
           /\ rng' = rng + drawn + 1
    /\ \E d \in choose_DIRS :
          IF in_bounds(x + d[1], y + d[2])
          THEN /\ x' = x + d[1]
               /\ y' = y + d[2]
               /\ UNCHANGED <<pc, i>>
          ELSE WalkEnds
    /\ UNCHANGED <<cells, t, stickiness, running, op>>

\* The for loop is over: self.t -= FRAME_DURATION, and the next test of the
\* while loop
EndFrame ==
    /\ pc = "frame"
    /\ i = WalksPerFrame
    /\ t' = F64Sub(t, FRAME_DURATION)
    /\ pc' = IF F64Gt(t', FRAME_DURATION) THEN "frame" ELSE "idle"
    /\ i' = 0
    /\ UNCHANGED <<cells, rng, stickiness, running, x, y, op>>

\* The steps inside Grid::update
FrameStep == StartWalk \/ WalkStick \/ WalkMove \/ EndFrame

----------------------------------------------------------------------------
(* main: the event loop *)

\* The variable grid of main holds the Grid g
GridIs(g) ==
    /\ cells = g.cells
    /\ t = g.t
    /\ stickiness = g.stickiness
    /\ running = g.running

\* let rng = rand::random(); let mut grid = Grid::new(rng, 0.1)
Init ==
    /\ GridIs(new(100))
    /\ rng = 0
    /\ pc = "idle"
    /\ i = 0
    /\ x = 0
    /\ y = 0
    /\ op = "new"

\* Event::Update(ref u) => if grid.running { grid.update(u); }
UpdateRunning ==
    /\ running
    /\ \E dt \in DtSet : update(dt)

\* The Update event without the test of grid.running
UpdatePaused_accumulates ==
    /\ ~running
    /\ \E dt \in DtSet : update(dt)

UpdatePaused ==
    /\ pc = "idle"
    /\ ~running
    /\ op' = "update"
    /\ UNCHANGED <<cells, t, rng, stickiness, running, pc, i, x, y>>

\* Key::Space => grid.running = !grid.running
TogglePause ==
    /\ pc = "idle"
    /\ running' = ~running
    /\ op' = "toggle"
    /\ UNCHANGED <<cells, t, rng, stickiness, pc, i, x, y>>

\* A freshly seeded rng in place of the old one
Reseed == rng' = 0

\* grid.rng: the rng of the old grid is moved into the new one
MoveRng == rng' = rng

\* An assignment that leaves the field running of the old grid
AssignGrid_keeps_running(g) ==
    /\ cells' = g.cells
    /\ t' = g.t
    /\ stickiness' = g.stickiness
    /\ MoveRng
    /\ UNCHANGED <<running, pc, i, x, y>>

\* grid = g
AssignGrid(g) ==
    /\ cells' = g.cells
    /\ t' = g.t
    /\ stickiness' = g.stickiness
    /\ running' = g.running
    /\ MoveRng
    /\ UNCHANGED <<pc, i, x, y>>

\* Key::D1 => grid = Grid::new(grid.rng, 1.0)
ResetHigh ==
    /\ pc = "idle"
    /\ AssignGrid(new(1000))
    /\ op' = "reset-high"

\* Key::D2 => grid = Grid::new(grid.rng, 0.1)
ResetMedium ==
    /\ pc = "idle"
    /\ AssignGrid(new(100))
    /\ op' = "reset-medium"

\* Key::D3 => grid = Grid::new(grid.rng, 0.01)
ResetLow ==
    /\ pc = "idle"
    /\ AssignGrid(new(10))
    /\ op' = "reset-low"

\* Key::D0 => grid = odd_grid(grid.rng)
ResetSpiral ==
    /\ pc = "idle"
    /\ AssignGrid(odd_grid)
    /\ op' = "reset-spiral"

Next ==
    \/ UpdateRunning
    \/ UpdatePaused
    \/ FrameStep
    \/ TogglePause
    \/ ResetHigh
    \/ ResetMedium
    \/ ResetLow
    \/ ResetSpiral

Spec == Init /\ [][Next]_vars

----------------------------------------------------------------------------
(* A Grid on its own: any constructor, any stickiness, then calls of update *)

\* The values of stickiness a Grid is constructed with (in thousandths)
StickinessSet == {0, 10, 100, 1000}

InitGrid ==
    /\ \E s \in StickinessSet :
          \/ GridIs(new(s)) /\ op = "new"
          \/ GridIs(new_empty(s)) /\ op = "new_empty"
    /\ rng = 0
    /\ pc = "idle"
    /\ i = 0
    /\ x = 0
    /\ y = 0

\* grid.update(u)
GridUpdate == \E dt \in DtSet : update(dt)

NextGrid == GridUpdate \/ FrameStep

SpecGrid == InitGrid /\ [][NextGrid]_vars

----------------------------------------------------------------------------
(* One call of update on a Grid, the draws not counted: the steps of        *)
(* update_one_frame as above, without the bound MaxDraws on the length of   *)
(* the random stream (no step reads rng), and with the random choices fair  *)

\* The Grid that update is called on: one of the three the program
\* constructs, with any stickiness
InitLive ==
    /\ \/ \E s \in StickinessSet : GridIs(new(s)) /\ op = "new"
       \/ \E s \in StickinessSet : GridIs(new_empty(s)) /\ op = "new_empty"
       \/ GridIs(odd_grid) /\ op = "reset-spiral"
    /\ rng = 0
    /\ pc = "idle"
    /\ i = 0
    /\ x = 0
    /\ y = 0

\* The values of args.dt of the call: any of DtSet on a Grid with stickiness
\* 0, whose cells stay as constructed, and on the others those that run at
\* most one frame (which keeps the cells they reach few)
LiveDtSet == IF stickiness = 0 THEN DtSet ELSE {F64_0_05, F64_0_2}

\* grid.update(u), once
LiveUpdate ==
    /\ op # "update"
    /\ \E dt \in LiveDtSet : update(dt)

\* The head of the for loop: the starting point of a walk
LiveStartWalk ==
    /\ pc = "frame"
    /\ i < WalksPerFrame
    /\ \E sx \in gen_range(0, GRID_WIDTH), sy \in gen_range(0, GRID_HEIGHT) :
          /\ x' = sx
          /\ y' = sy
    /\ pc' = "walk"
    /\ UNCHANGED <<cells, rng, t, stickiness, running, i, op>>

\* if self.is_adjacent(x, y) && self.rng.gen::<f64>() < self.stickiness
\* { self.set(x, y); break; }
LiveStick ==
    /\ pc = "walk"
    /\ is_adjacent(x, y)
    /\ \E u \in gen_f64 : Sticks(u)
    /\ cells' = set(cells, x, y)
    /\ WalkEnds
    /\ UNCHANGED <<rng, t, stickiness, running, op>>

\* LiveMove in which a particle that would leave the grid stays where it is
LiveMove_bounces(d) ==
    /\ pc = "walk"
    /\ is_adjacent(x, y) => \E u \in gen_f64 : ~Sticks(u)
    /\ IF in_bounds(x + d[1], y + d[2])
       THEN /\ x' = x + d[1]
            /\ y' = y + d[2]
       ELSE UNCHANGED <<x, y>>
    /\ UNCHANGED <<cells, rng, t, stickiness, running, op, pc, i>>

\* The condition of the if is false, and rng.choose(&DIRS) returns d: the
\* particle moves by d and the walk goes on if the new point is in bounds,
\* else it ends
LiveMove(d) ==
    /\ pc = "walk"
    /\ is_adjacent(x, y) => \E u \in gen_f64 : ~Sticks(u)
    /\ IF in_bounds(x + d[1], y + d[2])
       THEN /\ x' = x + d[1]
            /\ y' = y + d[2]
            /\ UNCHANGED <<pc, i>>
       ELSE WalkEnds
    /\ UNCHANGED <<cells, rng, t, stickiness, running, op>>

LiveWalkMove == \E d \in choose_DIRS : LiveMove(d)

NextLive ==
    LiveUpdate \/ LiveStartWalk \/ LiveStick \/ LiveWalkMove \/ EndFrame

\* The particle is in row r and rng.choose(&DIRS) returns (0, -1)
MoveUpFromRow(r) == y = r /\ LiveMove(<<0, -1>>)

\* The program keeps running, and the choice among DIRS is fair: in a row
\* the particle is in again and again, (0, -1) is chosen again and again
\* (as is every other offset; this one is enough)
SpecLive ==
    /\ InitLive
    /\ [][NextLive]_vars
    /\ WF_vars(NextLive)
    /\ \A r \in 0 .. (GRID_HEIGHT - 1) : SF_vars(MoveUpFromRow(r))

----------------------------------------------------------------------------
(* What the claims speak of *)

\* The coordinates of the cells of the grid, [0, width) x [0, height)
GridCoords == (0 .. (GRID_WIDTH - 1)) \X (0 .. (GRID_HEIGHT - 1))

\* The coordinates is_occupied (Grid::test) reports occupied
Occupied == {c \in GridCoords : test(c[1], c[2])}

\* The cell of the point seed, (width / 2, height / 2)
Center == <<GRID_WIDTH \div 2, GRID_HEIGHT \div 2>>

\* The reset events
ResetOps == {"reset-high", "reset-medium", "reset-low", "reset-spiral"}

\* Coordinates in the grid, around it, and next to the ends of i32: every
\* coordinate with i32::MIN < x < i32::MAX and i32::MIN < y < i32::MAX that
\* has a neighbour in the grid, and some that have none
ProbeInner ==
    (({I32_MIN + 1, I32_MAX - 1} \cup (-2 .. (GRID_WIDTH + 1)))
        \X ({I32_MIN + 1, I32_MAX - 1} \cup (-1 .. GRID_HEIGHT)))

\* Coordinates with x or y an end of i32
ProbeEnds ==
    ({I32_MIN, I32_MAX} \X {I32_MIN, 0, GRID_HEIGHT \div 2, I32_MAX})
        \cup ({0, GRID_WIDTH \div 2} \X {I32_MIN, I32_MAX})

\* One of the 8 Moore neighbours of (cx, cy) is reported occupied (a
\* neighbour that is no i32 coordinate is out of bounds)
MooreOccupied(cx, cy) ==
    \E dx \in {-1, 0, 1}, dy \in {-1, 0, 1} :
        /\ <<dx, dy>> # <<0, 0>>
        /\ ~I32Overflows(cx, dx)
        /\ ~I32Overflows(cy, dy)
        /\ test(cx + dx, cy + dy)

----------------------------------------------------------------------------
(* C1 *)

\* C1: occupancy is monotonic within one run: a step that is not a reset
\* leaves every coordinate that is reported occupied reported occupied, and
\* clears no cell of the array.
C1_OccupancyMonotonic ==
    [][op' \notin ResetOps =>
          /\ Occupied \subseteq Occupied'
          /\ \A k \in DOMAIN cells : cells[k] => cells'[k]]_vars

\* A frame has run to its end and the cluster has grown beyond the seed.
C1_Witness ==
    /\ op = "update"
    /\ pc = "idle"
    /\ rng > 0
    /\ Cardinality(Occupied) >= 2

----------------------------------------------------------------------------
(* C2 *)

\* C2 as stated: is_occupied is false on the whole border, x in {0, width-1}
\* or y in {0, height-1}, and outside the grid.
C2_BorderUnoccupied ==
    \A cx \in -1 .. GRID_WIDTH, cy \in -1 .. GRID_HEIGHT :
        (   cx \in {0, GRID_WIDTH - 1} \/ cy \in {0, GRID_HEIGHT - 1}
         \/ <<cx, cy>> \notin GridCoords)
        => ~test(cx, cy)

\* C2, amended: is_occupied is false for every coordinate with x = 0 or
\* y = 0 and for every coordinate outside the grid (the column width-1 and
\* the row height-1 are in bounds and can be occupied).
C2_ZeroBorderUnoccupied ==
    \A cx \in -1 .. GRID_WIDTH, cy \in -1 .. GRID_HEIGHT :
        (cx = 0 \/ cy = 0 \/ <<cx, cy>> \notin GridCoords) => ~test(cx, cy)

\* A walk has set a cell of column 0 or row 0 in the array, and a cell of the
\* last column or row is reported occupied.
C2_Witness ==
    /\ op = "update"
    /\ \E c \in GridCoords : (c[1] = 0 \/ c[2] = 0) /\ cells[Index(c[1], c[2])]
    /\ \E c \in Occupied : c[1] = GRID_WIDTH - 1 \/ c[2] = GRID_HEIGHT - 1

----------------------------------------------------------------------------
(* C3 *)

\* The while loop of Grid::update from accumulated time tt with k frames run:
\* <<the final t, the number of frames run>>
RECURSIVE UpdateLoop(_, _)
UpdateLoop(tt, k) ==
    IF F64Gt(tt, FRAME_DURATION)
    THEN UpdateLoop(F64Sub(tt, FRAME_DURATION), k + 1)
    ELSE <<tt, k>>

\* The number of frames Grid::update runs from accumulated time t0
FramesRun(t0, dt) == UpdateLoop(F64Add(t0, dt), 0)[2]

\* The accumulated time Grid::update leaves
TimeAfter(t0, dt) == UpdateLoop(F64Add(t0, dt), 0)[1]

\* C3: advance is frame-quantized: from zero accumulated time advance(0.05)
\* runs no frame, advance(0.05); advance(0.05) runs as many frames as
\* advance(0.1), and from any accumulated time, for any d1 and d2,
\* advance(d1); advance(d2) runs as many frames as advance(d1 + d2).
C3_FrameQuantized ==
    pc = "idle" =>
        /\ FramesRun(F64Zero, F64_0_05) = 0
        /\ FramesRun(F64Zero, F64_0_05)
             + FramesRun(TimeAfter(F64Zero, F64_0_05), F64_0_05)
           = FramesRun(F64Zero, F64_0_1)
        /\ \A d1 \in DtSet, d2 \in DtSet :
              FramesRun(t, d1) + FramesRun(TimeAfter(t, d1), d2)
              = FramesRun(t, F64Add(d1, d2))

----------------------------------------------------------------------------
(* C4 *)

\* C4: Grid::new returns a grid in which exactly the coordinate
\* (width / 2, height / 2) is occupied, with t = 0 and running = true;
\* Grid::new_empty returns a grid with no occupied coordinate (and no cell
\* of the array set), t = 0 and running = true.
C4_Constructors ==
    /\ op = "new" =>
          /\ Occupied = {Center}
          /\ t = F64Zero
          /\ running
    /\ op = "new_empty" =>
          /\ Occupied = {}
          /\ \A k \in DOMAIN cells : ~cells[k]
          /\ t = F64Zero
          /\ running

\* The grid Grid::new has just returned, its center occupied.
C4_Witness ==
    /\ op = "new"
    /\ rng = 0
    /\ test(Center[1], Center[2])

----------------------------------------------------------------------------
(* C5 *)

\* C5: with stickiness 1.0, a walk whose current coordinate is adjacent to
\* an occupied cell ends on that very step by occupying the coordinate: the
\* only step from there sets the cell and ends the walk.
C5_SticksAtOnce ==
    [][(pc = "walk" /\ stickiness = 1000 /\ is_adjacent(x, y)) =>
          /\ cells' = set(cells, x, y)
          /\ pc' = "frame"
          /\ i' = i + 1]_vars

\* With stickiness 1.0 the first walk of the first frame (fewer values drawn
\* than a whole frame draws) has moved at least once (more values drawn than
\* the two of its start) and is now adjacent to an occupied cell.
C5_Witness ==
    /\ pc = "walk"
    /\ stickiness = 1000
    /\ is_adjacent(x, y)
    /\ i = 0
    /\ rng > 2
    /\ rng < 3 * WalksPerFrame

----------------------------------------------------------------------------
(* C6 *)

\* C6: with stickiness 0.0 no step changes the cells: after any number of
\* frames the occupied cells are those of the seed.
C6_NeverSticks ==
    [][stickiness = 0 => cells' = cells]_vars

\* With stickiness 0.0 a frame has run to its end, one of its walks having
\* drawn for sticking (more draws than starts and moves need at the least),
\* and the seed is all that is occupied.
C6_Witness ==
    /\ stickiness = 0
    /\ op = "update"
    /\ pc = "idle"
    /\ rng > 3 * WalksPerFrame
    /\ Occupied = {Center}

----------------------------------------------------------------------------
(* C7 *)

\* C7: a reset leaves the random source where it is in its stream.
C7_ResetKeepsRng ==
    [][op' \in ResetOps => rng' = rng]_vars

\* A reset after values have been drawn.
C7_Witness ==
    /\ op \in ResetOps
    /\ rng > 0

----------------------------------------------------------------------------
(* C8 *)

\* The grid after a reset: the cells reported occupied, stickiness, t = 0,
\* running
AfterReset(seed, s) ==
    /\ Occupied' = seed
    /\ stickiness' = s
    /\ t' = F64Zero
    /\ running'

\* The coordinates of the spiral seed that are in bounds
SpiralSeed ==
    {c \in GridCoords : in_bounds(c[1], c[2]) /\ SpiralCells[Index(c[1], c[2])]}

\* C8: a reset replaces the grid, whether running or paused: after
\* reset-high/medium/low exactly the point seed is occupied and stickiness
\* is 1.0 / 0.1 / 0.01, after reset-spiral exactly the spiral seed is
\* occupied and stickiness is 0.1; t = 0 and running = true.
C8_ResetReplaces ==
    [][/\ op' = "reset-high" => AfterReset({Center}, 1000)
       /\ op' = "reset-medium" => AfterReset({Center}, 100)
       /\ op' = "reset-low" => AfterReset({Center}, 10)
       /\ op' = "reset-spiral" => AfterReset(SpiralSeed, 100)]_vars

\* A reset to the point seed after walks have run.
C8_Witness ==
    /\ op \in {"reset-high", "reset-medium", "reset-low"}
    /\ rng >= 3 * WalksPerFrame
    /\ Occupied = {Center}
    /\ running

----------------------------------------------------------------------------
(* C9 *)

\* C9: while running is false an Update event changes neither the cells nor
\* the accumulated time nor the random source; toggle-pause flips running
\* and changes nothing else.
C9_RunningGates ==
    [][/\ (~running /\ op' = "update") =>
              UNCHANGED <<cells, t, rng, stickiness, running, pc>>
       /\ op' = "toggle" =>
              /\ running' = ~running
              /\ UNCHANGED <<cells, t, rng, stickiness, pc, i, x, y>>]_vars

\* An Update event has come while paused, with time accumulated before.
C9_Witness ==
    /\ ~running
    /\ op = "update"
    /\ t # F64Zero

----------------------------------------------------------------------------
(* C10 *)

\* is_adjacent(cx, cy) returns, and returns true iff one of the 8 Moore
\* neighbours of (cx, cy) is reported occupied
AdjacentIsMoore(cx, cy) ==
    /\ ~is_adjacent_panics(cx, cy)
    /\ is_adjacent(cx, cy) <=> MooreOccupied(cx, cy)

\* The coordinates a state is probed at: the particle's during a walk, where
\* the program calls is_adjacent, and all of P between two walks (the cells
\* are all that is_adjacent reads, and every value they take they have in a
\* state between two walks)
ProbedAt(P) == IF pc = "walk" THEN {<<x, y>>} ELSE P

----------------------------------------------------------------------------
(* C11 *)

\* The coordinates test is called with: the 8 neighbours of the particle
\* during a walk, where is_adjacent calls it, and all of P between two walks
TestedAt(P) ==
    IF pc = "walk"
    THEN {<<x + dx, y + dy>> : dx \in {-1, 0, 1}, dy \in {-1, 0, 1}}
    ELSE P

\* C11: is_occupied fails closed: for every i32 coordinate, negative ones
\* and ones >= width or >= height included, test reads the cell array at no
\* index outside [0, width * height), and returns false whenever the
\* coordinate does not satisfy 0 < x < width and 0 < y < height.
C11_FailsClosed ==
    \A c \in TestedAt(ProbeInner \cup ProbeEnds) :
        /\ test_reads(c[1], c[2]) \subseteq DOMAIN cells
        /\ ~(0 < c[1] /\ c[1] < GRID_WIDTH /\ 0 < c[2] /\ c[2] < GRID_HEIGHT)
              => /\ ~test(c[1], c[2])
                 /\ test_reads(c[1], c[2]) = {}

\* A walk stands in column 0 or row 0, so that is_adjacent calls test with a
\* negative coordinate, and the array holds a true cell in column 0 or row 0
\* that test does not report.
C11_Witness ==
    /\ pc = "walk"
    /\ x = 0 \/ y = 0
    /\ \E c \in GridCoords :
          /\ c[1] = 0 \/ c[2] = 0
          /\ cells[Index(c[1], c[2])]
          /\ ~test(c[1], c[2])

----------------------------------------------------------------------------
(* C12 *)

\* C12: every walk starts at an in-bounds coordinate: the step that draws
\* the starting coordinate leaves 0 < x < width and 0 < y < height.
C12_StartInBounds ==
    [][(pc = "frame" /\ pc' = "walk") => in_bounds(x', y')]_vars

----------------------------------------------------------------------------
(* C13 *)

\* C13: the walks call set with in-bounds coordinates only: the cell array
\* holds no true entry at a coordinate with x = 0 or y = 0, nor at any other
\* coordinate that is not in bounds.
C13_StoredInBounds ==
    \A c \in GridCoords : cells[Index(c[1], c[2])] => in_bounds(c[1], c[2])

----------------------------------------------------------------------------
(* C14 *)

\* a + b and a - b (for a >= b) on the same pairs, exact: not rounded to the
\* 53 bits of a binary64
ExactAdd(a, b) ==
    LET l == a[2] + b[2]
    IN  IF l >= LIMB THEN <<a[1] + b[1] + 1, l - LIMB>>
                     ELSE <<a[1] + b[1], l>>

ExactSub(a, b) ==
    IF a[2] >= b[2] THEN <<a[1] - b[1], a[2] - b[2]>>
                    ELSE <<a[1] - b[1] - 1, a[2] + LIMB - b[2]>>

\* <<s - k * F, k>> for the smallest k >= k0 with s - k * F <= F, in exact
\* arithmetic, given ss = s - k0 * F
RECURSIVE ExactLoop(_, _)
ExactLoop(ss, k) ==
    IF F64Gt(ss, FRAME_DURATION)
    THEN ExactLoop(ExactSub(ss, FRAME_DURATION), k + 1)
    ELSE <<ss, k>>

\* C14: advance(d) from accumulated time t runs exactly k frames, k the
\* smallest non-negative integer with t + d - k * F <= F, and leaves an
\* accumulated time in [0, F]; advance(0.1) from zero, which makes the
\* accumulated time exactly F, runs no frame.  (The accumulated time the
\* claim names, t + d - k * F, is left out: the sum t + d is rounded.)
C14_ExactFrames ==
    pc = "idle" =>
        /\ \A dt \in DtSet :
              /\ FramesRun(t, dt) = ExactLoop(ExactAdd(t, dt), 0)[2]
              /\ ~F64Gt(TimeAfter(t, dt), FRAME_DURATION)
        /\ FramesRun(F64Zero, FRAME_DURATION) = 0
        /\ TimeAfter(F64Zero, FRAME_DURATION) = FRAME_DURATION

----------------------------------------------------------------------------
(* C15 *)

\* The step ends a walk by escape: the walk ends on a move, which is drawn
\* without a stickiness draw where (x, y) is not adjacent and after one that
\* failed where it is
Escapes ==
    /\ pc = "walk"
    /\ pc' = "frame"
    /\ ~is_adjacent(x, y) \/ rng' = rng + 2

\* C15: a walk that ends by escaping leaves the cells unchanged; the only
\* cell a walk can change is the one at the coordinate where it sticks, in
\* the step that ends it, so that a walk changes at most one cell; drawing
\* the start of a walk changes none.
C15_WalkChangesOneCell ==
    [][/\ Escapes => cells' = cells
       /\ pc = "walk" =>
              \A k \in DOMAIN cells :
                  cells'[k] # cells[k] =>
                      /\ k = Index(x, y)
                      /\ pc' = "frame"
                      /\ is_adjacent(x, y)
       /\ pc' = "walk" => cells' = cells]_vars

\* The first walk of the run has ended with three values drawn and the point
\* seed is still the only cell set: the walk started next to no occupied
\* cell and escaped on its first move.
C15_Witness ==
    /\ op = "update"
    /\ pc = "frame"
    /\ i = 1
    /\ rng = 3
    /\ cells = set(EmptyCells, Center[1], Center[2])

----------------------------------------------------------------------------
(* C16 *)

\* The number of cells set in the array
StoredCount == Cardinality({k \in DOMAIN cells : cells[k]})

\* C16: one frame attempts exactly WalksPerFrame (60) walks: a frame begins
\* with no walk made, every walk begins with the two draws of its starting
\* coordinate while fewer than WalksPerFrame walks have ended, the end of a
\* walk counts one, and the frame ends when WalksPerFrame walks have ended
\* and not before.  The cells set and the cells reported occupied grow by at
\* most one with each walk that ends and by none otherwise, hence by at most
\* WalksPerFrame in a frame.
C16_WalksPerFrame ==
    /\ [](/\ i \in 0 .. WalksPerFrame
          /\ pc = "idle" => i = 0
          /\ pc = "walk" => i < WalksPerFrame)
    /\ [][/\ (pc = "idle" /\ pc' = "frame") => i' = 0
          /\ (pc = "frame" /\ pc' = "walk") =>
                 /\ i < WalksPerFrame
                 /\ i' = i
                 /\ rng' = rng + 2
          /\ (pc = "walk" /\ pc' = "walk") => i' = i
          /\ (pc = "walk" /\ pc' = "frame") => i' = i + 1
          /\ (pc = "frame" /\ pc' # "walk") =>
                 /\ i = WalksPerFrame
                 /\ i' = 0
          /\ (pc # "idle" /\ cells' # cells) =>
                 /\ StoredCount' <= StoredCount + (i' - i)
                 /\ Cardinality(Occupied') <= Cardinality(Occupied) + (i' - i)]_vars

\* The first frame of a run has made its WalksPerFrame walks, each with
\* three values drawn, and the cells grew by one less than WalksPerFrame
\* from the point seed: one walk escaped.
C16_Witness ==
    /\ op = "update"
    /\ pc = "frame"
    /\ i = WalksPerFrame
    /\ rng = 3 * WalksPerFrame
    /\ cells[Index(Center[1], Center[2])]
    /\ StoredCount = WalksPerFrame

----------------------------------------------------------------------------
(* C17 *)

\* C17: every frame runs to completion: with the random choices fair, every
\* walk ends (by sticking or by escaping, the two steps that end one), for
\* any stickiness and any contents of the grid, and every call of update
\* returns.
C17_FramesComplete ==
    /\ (pc = "walk") ~> (pc = "frame")
    /\ (pc # "idle") ~> (pc = "idle")

\* update has returned after two frames on a Grid with stickiness 0, where
\* no walk sticks: every walk of the two frames escaped.
C17_Witness ==
    /\ pc = "idle"
    /\ op = "update"
    /\ stickiness = 0
    /\ t = TimeAfter(F64Zero, F64_0_3)
    /\ t # F64_0_3

----------------------------------------------------------------------------
(* C18 *)

\* a and b are Moore neighbours
Near(a, b) ==
    /\ a # b
    /\ a[1] - b[1] \in {-1, 0, 1}
    /\ a[2] - b[2] \in {-1, 0, 1}

\* The coordinates of S that a path of Moore neighbours in S joins to R
RECURSIVE Joined(_, _)
Joined(R, S) ==
    LET more == {c \in S \ R : \E r \in R : Near(c, r)}
    IN  IF more = {} THEN R ELSE Joined(R \cup more, S)

\* S contains the center cell and is 8-connected
ConnectedFromCenter(S) == Center \in S /\ Joined({Center}, S) = S

\* C18: a step of a frame sets a cell, and makes a coordinate newly reported
\* occupied, only if one of its 8 Moore neighbours was reported occupied
\* just before; hence after Grid::new the coordinates reported occupied
\* always contain the center cell and are 8-connected, and after
\* Grid::new_empty no coordinate is ever reported occupied and no cell is
\* ever set.
C18_GrowsFromNeighbour ==
    /\ [][/\ \A c \in Occupied' \ Occupied : MooreOccupied(c[1], c[2])
          /\ \A c \in GridCoords :
                (cells'[Index(c[1], c[2])] /\ ~cells[Index(c[1], c[2])])
                    => MooreOccupied(c[1], c[2])]_vars
    /\ (op = "new") => [](pc # "walk" => ConnectedFromCenter(Occupied))
    /\ (op = "new_empty") => [](Occupied = {} /\ cells = EmptyCells)

\* update has returned on a Grid made by Grid::new and the cluster has
\* grown by two cells or more.
C18_Witness ==
    /\ op = "update"
    /\ pc = "idle"
    /\ Center \in Occupied
    /\ Cardinality(Occupied) >= 3

----------------------------------------------------------------------------
(* C19 *)

\* C19: the walks never index the cell array out of range: wherever a walk
\* stands when it may call set(x, y), 0 <= x < width and 0 <= y < height, so
\* that neither coordinate is negative and the index y * width + x that set
\* writes lies in [0, width * height).
C19_SetInRange ==
    pc = "walk" =>
        /\ 0 <= x /\ x < GRID_WIDTH
        /\ 0 <= y /\ y < GRID_HEIGHT
        /\ 0 <= Index(x, y) /\ Index(x, y) < GRID_WIDTH * GRID_HEIGHT
        /\ Index(x, y) \in DOMAIN cells

\* A walk stands on the last cell of the array, next to an occupied cell,
\* with stickiness 1.0: its next step is set(width - 1, height - 1).
C19_Witness ==
    /\ pc = "walk"
    /\ x = GRID_WIDTH - 1
    /\ y = GRID_HEIGHT - 1
    /\ is_adjacent(x, y)
    /\ stickiness = 1000

====
